---- MODULE Spec2Model ----
(***************************************************************************)
(* Verification & Rewards Engine of the green-action backend:              *)
(*   - GreenWasteAiService: submitAction / deleteAction and the decision   *)
(*     ladder calculatePointsAndStatus over POINTS_CRITERIA;               *)
(*   - LeaderboardService.distributeDailyReward over the user store, and   *)
(*     the ranking queries getTopUsers / getLeaderboard;                   *)
(*   - retryVerification, and redeemVoucher with its createClaim           *)
(*     transaction.                                                        *)
(* Every await of a handler on the store is one atomic step; handlers run  *)
(* concurrently as request-scoped executions (procs).                      *)
(***************************************************************************)
EXTENDS Integers, Sequences, FiniteSets, TLC

VARIABLES total, actions, nextId, procs, ledger, distCompleted, probe,
          bonus, vouchers, claims, secret, otps

vars == <<total, actions, nextId, procs, ledger, distCompleted, probe,
          bonus, vouchers, claims, secret, otps>>

\* total         : user.total_points of every user row
\* actions       : the green_action rows, by id
\* nextId        : the id the next created green_action row gets
\* procs         : the requests, numbered in arrival order, each with the position
\*                 and the locals of its handler
\* ledger        : history, per green_action id ever created: whether the oracle
\*                 failed for it, and how many credits / debits were applied for it
\* distCompleted : history, distributions that returned a result in this period
\* probe         : input and output of the decision ladder checked on its own
\* bonus         : history, per user: the sum of the leaderboard bonuses credited
\* vouchers      : the voucher rows, by id
\* claims        : the voucher_claim rows
\* secret        : the configured SHA_WEBHOOK_SECRET, "" when none is configured
\* otps          : the otp_code rows, in the order of their creation

(***************************************************************************)
(* Bounds of the model.                                                    *)
(***************************************************************************)
\* requests handled in one behaviour, any of them concurrently
MaxProcs == 2

Procs == 1..MaxProcs

\* requests handled in one behaviour of SpecAll and of SpecRank
MaxRequests == 1

(***************************************************************************)
(* Enums and the users of the store.                                       *)
(***************************************************************************)
PENDING == "PENDING"
VERIFIED == "VERIFIED"
REJECTED == "REJECTED"
NEEDS_IMPROVEMENT == "NEEDS_IMPROVEMENT"

GreenActionStatus == {PENDING, VERIFIED, REJECTED, NEEDS_IMPROVEMENT}

GreenActionCategory == {"GREEN_WASTE", "GREEN_HOME", "GREEN_CONSUMPTION", "GREEN_COMMUNITY"}

\* user rows: five ordinary participants (role WARGA), one of them (w5)
\* deactivated, and one administrator
Users == {"w1", "w2", "w3", "w4", "w5", "adm"}

Role == [u \in Users |-> IF u = "adm" THEN "ADMIN" ELSE "WARGA"]

IsActive == [u \in Users |-> u # "w5"]

\* the users whose requests are followed
Requesters == {"w1", "w2", "adm"}

(***************************************************************************)
(* Category rule table and decision ladder.                                *)
(***************************************************************************)
POINTS_CRITERIA ==
  [ GREEN_WASTE |->
      [ ORGANIC_WASTE     |-> [basePoints |-> 50, minScore |-> 60],
        INORGANIC_RECYCLE |-> [basePoints |-> 50, minScore |-> 60],
        HAZARDOUS_WASTE   |-> [basePoints |-> 70, minScore |-> 75] ],
    GREEN_HOME |->
      [ PLANT_TREE    |-> [basePoints |-> 60, minScore |-> 70],
        URBAN_FARMING |-> [basePoints |-> 50, minScore |-> 65],
        GREEN_CORNER  |-> [basePoints |-> 40, minScore |-> 60] ],
    GREEN_CONSUMPTION |->
      [ ORGANIC_PRODUCT |-> [basePoints |-> 30, minScore |-> 60],
        REFILL_STATION  |-> [basePoints |-> 35, minScore |-> 60],
        REUSABLE_ITEMS  |-> [basePoints |-> 25, minScore |-> 55] ],
    GREEN_COMMUNITY |->
      [ COMMUNITY_CLEANUP |-> [basePoints |-> 80, minScore |-> 70],
        RIVER_CLEANUP     |-> [basePoints |-> 90, minScore |-> 70],
        CAR_FREE_DAY      |-> [basePoints |-> 60, minScore |-> 65],
        OTHER_COLLECTIVE  |-> [basePoints |-> 50, minScore |-> 60] ] ]

\* the `|| { basePoints: 30, minScore: 60 }` fallback
DefaultCriteria == [basePoints |-> 30, minScore |-> 60]

\* categoryCriteria?.[subCategory] || default
subCategoryCriteria(category, subCategory) ==
  IF category \in DOMAIN POINTS_CRITERIA
     /\ subCategory \in DOMAIN POINTS_CRITERIA[category]
  THEN POINTS_CRITERIA[category][subCategory]
  ELSE DefaultCriteria

\* Math.floor(basePoints * 0.6): exact in IEEE doubles for every basePoints 0..100
PartialPoints(basePoints) == (basePoints * 6) \div 10

\* the ladder with partial credit for a score that needs improvement
calculatePointsAndStatusConsolation(aiScore, category, subCategory) ==
  LET c == subCategoryCriteria(category, subCategory) IN
  IF aiScore >= 80 THEN [points |-> c.basePoints, status |-> VERIFIED]
  ELSE IF aiScore >= c.minScore
       THEN [points |-> PartialPoints(c.basePoints), status |-> VERIFIED]
  ELSE IF aiScore >= 40
       THEN [points |-> PartialPoints(c.basePoints), status |-> NEEDS_IMPROVEMENT]
  ELSE [points |-> 0, status |-> REJECTED]

\* the ladder with the two credits the wrong way round
calculatePointsAndStatusSwapped(aiScore, category, subCategory) ==
  LET c == subCategoryCriteria(category, subCategory) IN
  IF aiScore >= 80 THEN [points |-> PartialPoints(c.basePoints), status |-> VERIFIED]
  ELSE IF aiScore >= c.minScore THEN [points |-> c.basePoints, status |-> VERIFIED]
  ELSE IF aiScore >= 40 THEN [points |-> 0, status |-> NEEDS_IMPROVEMENT]
  ELSE [points |-> 0, status |-> REJECTED]

\* the ladder with the first cut line strict (score > 80)
calculatePointsAndStatusStrict(aiScore, category, subCategory) ==
  LET c == subCategoryCriteria(category, subCategory) IN
  IF aiScore > 80 THEN [points |-> c.basePoints, status |-> VERIFIED]
  ELSE IF aiScore >= c.minScore
       THEN [points |-> PartialPoints(c.basePoints), status |-> VERIFIED]
  ELSE IF aiScore >= 40 THEN [points |-> 0, status |-> NEEDS_IMPROVEMENT]
  ELSE [points |-> 0, status |-> REJECTED]

calculatePointsAndStatus(aiScore, category, subCategory) ==
  LET c == subCategoryCriteria(category, subCategory) IN
  IF aiScore >= 80 THEN [points |-> c.basePoints, status |-> VERIFIED]
  ELSE IF aiScore >= c.minScore
       THEN [points |-> PartialPoints(c.basePoints), status |-> VERIFIED]
  ELSE IF aiScore >= 40 THEN [points |-> 0, status |-> NEEDS_IMPROVEMENT]
  ELSE [points |-> 0, status |-> REJECTED]

(***************************************************************************)
(* Scoring oracle adapter: verifyWithAi / parseAiResponse.                 *)
(* A response text is a sequence of tokens: a Markdown fence, free prose,  *)
(* or one JSON value (null, or an object with or without a numeric score). *)
(***************************************************************************)
Fence == [t |-> "fence", v |-> "", hasScore |-> FALSE, score |-> 0]

Prose == [t |-> "prose", v |-> "", hasScore |-> FALSE, score |-> 0]

JsonNull == [t |-> "json", v |-> "null", hasScore |-> FALSE, score |-> 0]

JsonObject(hasScore, score) ==
  [t |-> "json", v |-> "object", hasScore |-> hasScore, score |-> score]

FenceAt(text) == {i \in 1..Len(text) : text[i].t = "fence"}

Min(S) == CHOOSE x \in S : \A y \in S : x <= y

\* responseText.match(/```(?:json)?\s*([\s\S]*?)```/): the text between the first
\* fence and the next one, else the whole text
ExtractJson(text) ==
  IF Cardinality(FenceAt(text)) >= 2
  THEN LET f1 == Min(FenceAt(text))
           f2 == Min(FenceAt(text) \ {f1})
       IN SubSeq(text, f1 + 1, f2 - 1)
  ELSE text

\* JSON.parse succeeds on exactly one JSON value
JsonParses(jsonStr) == Len(jsonStr) = 1 /\ jsonStr[1].t = "json"

Clamp(x) == IF x < 0 THEN 0 ELSE IF x > 100 THEN 100 ELSE x

\* a default result carrying the top score
getDefaultAiResultHigh ==
  [success |-> FALSE, score |-> 100, points |-> 0, status |-> NEEDS_IMPROVEMENT]

getDefaultAiResult ==
  [success |-> FALSE, score |-> 0, points |-> 0, status |-> NEEDS_IMPROVEMENT]

parseAiResponse(responseText) ==
  LET jsonStr == ExtractJson(responseText) IN
  IF ~JsonParses(jsonStr) THEN getDefaultAiResult
  ELSE LET parsed == jsonStr[1] IN
       \* parsed.score on null throws a TypeError, caught by the same catch
       IF parsed.v = "null" THEN getDefaultAiResult
       ELSE [success |-> TRUE,
             score |-> Clamp(IF parsed.hasScore THEN parsed.score ELSE 0),
             points |-> 0, status |-> PENDING]

\* outcome of genAiService.generateFromTextAndMedia: it throws, reports
\* success = false, or returns a text
verifyWithAi(outcome) ==
  IF outcome.kind = "throws" THEN getDefaultAiResult
  ELSE IF outcome.kind = "unsuccessful" THEN getDefaultAiResult
  ELSE parseAiResponse(outcome.text)

\* inputs of the model: scores the oracle may put in its JSON (below 0 and
\* above 100 included), and the response texts built around one JSON value
InputScores == {-5, 45, 65, 150}

JsonValues == {JsonNull, JsonObject(FALSE, 0)} \cup {JsonObject(TRUE, s) : s \in InputScores}

TextsAround(j) ==
  { <<j>>, <<Fence, j, Fence>>, <<Prose, Fence, j, Fence, Prose>>, <<Prose, j>> }

ResponseTexts ==
  UNION {TextsAround(j) : j \in JsonValues}
    \cup { <<>>, <<Prose>>, <<Fence, Prose, Fence>> }

OracleOutcomes ==
  { [kind |-> "throws", text |-> <<>>], [kind |-> "unsuccessful", text |-> <<>>] }
    \cup { [kind |-> "ok", text |-> x] : x \in ResponseTexts }

\* (category, subCategory) pairs submitted in the concurrent model
InputSubs == { <<"GREEN_WASTE", "ORGANIC_WASTE">> }

(***************************************************************************)
(* Store operations.                                                       *)
(***************************************************************************)
\* db.user.update({ data: { total_points: { increment: points } } })
\* an update that writes the points over the total it finds
updateUserPointsOverwrite(t, userId, points) == [t EXCEPT ![userId] = points]

\* an update that leaves the row as it is
updateUserPointsNoop(t, userId, points) == t

updateUserPoints(t, userId, points) == [t EXCEPT ![userId] = @ + points]

\* db.user.update({ data: { total_points: { increment: bonusPoints } } })
addBonusPoints(t, userId, bonusPoints) == [t EXCEPT ![userId] = @ + bonusPoints]

\* a bonus table with the same bonus for every rank
DAILY_BONUS_POINTS_FLAT == <<10, 10, 10>>

DAILY_BONUS_POINTS == <<15, 10, 5>>

TOP_USERS_COUNT == 3

\* a where clause without total_points > 0
EligibleWithZero(t) == {u \in Users : Role[u] = "WARGA" /\ IsActive[u]}

\* a where clause without the role
EligibleAnyRole(t) == {u \in Users : IsActive[u] /\ t[u] > 0}

\* where: role WARGA, is_active, total_points > 0
Eligible(t) == {u \in Users : Role[u] = "WARGA" /\ IsActive[u] /\ t[u] > 0}

Perms(S) ==
  {s \in [1..Cardinality(S) -> S] : \A i, j \in 1..Cardinality(S) : i # j => s[i] # s[j]}

\* orderBy total_points desc; rows with equal totals come in any order the
\* database picks
Orderings(t) ==
  {s \in Perms(Eligible(t)) : \A i, j \in 1..Len(s) : i < j => t[s[i]] >= t[s[j]]}

Take(s, n) == SubSeq(s, 1, IF Len(s) < n THEN Len(s) ELSE n)

getTopUsers(t, topN) == {Take(s, topN) : s \in Orderings(t)}

\* usersWithPoints.slice(skip, skip + limit)
Slice(s, skip, limit) ==
  SubSeq(s, skip + 1, IF Len(s) < skip + limit THEN Len(s) ELSE skip + limit)

\* getLeaderboard: the same where and orderBy, then the page with
\* rank: skip + index + 1, and the number of rows found
getLeaderboard(t, page, limit) ==
  { LET skip == (page - 1) * limit
        paginatedUsers == Slice(s, skip, limit)
    IN [data |-> [k \in 1..Len(paginatedUsers) |->
                    [rank |-> skip + k, userId |-> paginatedUsers[k],
                     totalPoints |-> t[paginatedUsers[k]]]],
        total |-> Len(s)]
    : s \in Orderings(t) }

(***************************************************************************)
(* Request handlers.                                                       *)
(***************************************************************************)
\* the value SHA_WEBHOOK_SECRET is configured with
WebhookSecret == "s3cret"

IdleProc ==
  [op |-> "none", pc |-> "idle", user |-> "-", isAdmin |-> FALSE, id |-> 0,
   owner |-> "-", points |-> 0, status |-> "-", failed |-> FALSE,
   top |-> <<>>, i |-> 0, winners |-> <<>>, totalBonusDistributed |-> 0,
   after |-> FALSE, afterFailed |-> FALSE, err |-> "", result |-> "",
   firstMailFailure |-> 0,
   voucher |-> "-", limit |-> 0, entries |-> <<>>, count |-> 0, shaKey |-> "",
   otp |-> 0, email |-> "", code |-> "", purpose |-> ""]

ProbeOff ==
  [phase |-> "off", score |-> 0, category |-> "", subCategory |-> "",
   points |-> 0, status |-> ""]

\* request p arrives: its handler starts, after the requests before it
Arrives(p) ==
  /\ procs[p].pc = "idle"
  /\ \A q \in Procs : q < p => procs[q].pc # "idle"

\* the store at the start: empty, or holding one VERIFIED action of w1 with
\* its 50 points credited (the state a completed full-credit submitAction leaves)
InitStores ==
  { [total |-> [u \in Users |-> 0], actions |-> <<>>, ledger |-> <<>>],
    [total |-> [u \in Users |-> IF u = "w1" THEN 50 ELSE 0],
     actions |-> <<[user_id |-> "w1", status |-> VERIFIED, points |-> 50]>>,
     ledger |-> <<[failed |-> FALSE, credits |-> 1, debits |-> 0]>>] }

\* the voucher rows at the start: v1 and v4 redeemable for 30 points with a
\* quota of one each, v2 deactivated, v3 past its valid_until
InitVouchers ==
  [v \in {"v1", "v2", "v3", "v4"} |->
     [points_required |-> 30, quota_total |-> 1, quota_used |-> 0,
      is_active |-> v # "v2", expired |-> v = "v3"]]

Init ==
  /\ \E s \in InitStores :
       /\ total = s.total
       /\ actions = s.actions
       /\ ledger = s.ledger
       /\ nextId = Len(s.ledger) + 1
  /\ procs = [p \in Procs |-> IdleProc]
  /\ distCompleted = 0
  /\ probe = ProbeOff
  /\ bonus = [u \in Users |-> 0]
  /\ vouchers = InitVouchers
  /\ claims = <<>>
  /\ secret = WebhookSecret
  /\ otps = <<>>

\* repository.create: status: data.status || PENDING, points: data.points || 0
create(data) ==
  [user_id |-> data.userId,
   status |-> IF data.status = "" THEN PENDING ELSE data.status,
   points |-> data.points]

\* submitAction up to its first store call: upload, verifyWithAi,
\* calculatePointsAndStatus (the file is an image or a video, so getMediaType
\* does not reject it)
SubmitBegin(p) ==
  /\ Arrives(p)
  /\ \E u \in Requesters, cs \in InputSubs, o \in OracleOutcomes :
       LET aiResult == verifyWithAi(o)
           ps == calculatePointsAndStatus(aiResult.score, cs[1], cs[2])
       IN procs' = [procs EXCEPT ![p] =
                      [IdleProc EXCEPT !.op = "submit", !.pc = "create", !.user = u,
                                       !.points = ps.points, !.status = ps.status,
                                       !.failed = ~aiResult.success]]
  /\ UNCHANGED <<total, actions, nextId, ledger, distCompleted, probe, bonus, vouchers, claims, secret, otps>>

\* await this.repository.create({...})
SubmitCreate(p) ==
  /\ procs[p].op = "submit" /\ procs[p].pc = "create"
  /\ actions' = actions @@ (nextId :> create([userId |-> procs[p].user,
                                               status |-> procs[p].status,
                                               points |-> procs[p].points]))
  /\ nextId' = nextId + 1
  /\ ledger' = Append(ledger, [failed |-> procs[p].failed, credits |-> 0, debits |-> 0])
  /\ procs' = [procs EXCEPT ![p].id = nextId,
                            ![p].pc = IF procs[p].status = VERIFIED THEN "credit" ELSE "done"]
  /\ UNCHANGED <<total, distCompleted, probe, bonus, vouchers, claims, secret, otps>>

\* if (status === VERIFIED) await this.repository.updateUserPoints(userId, points)
SubmitCredit(p) ==
  /\ procs[p].op = "submit" /\ procs[p].pc = "credit"
  /\ total' = updateUserPoints(total, procs[p].user, procs[p].points)
  /\ ledger' = [ledger EXCEPT ![procs[p].id].credits = @ + 1]
  /\ procs' = [procs EXCEPT ![p].pc = "done"]
  /\ UNCHANGED <<actions, nextId, distCompleted, probe, bonus, vouchers, claims, secret, otps>>

\* a controller that takes every requester for an admin
IsAdminRoleAny(u) == TRUE

\* controller: isAdmin = role is ADMIN or DLH
IsAdminRole(u) == Role[u] \in {"ADMIN", "DLH"}

\* deleteAction up to its checks: findById, NotFound, Forbidden
DeleteBegin(p) ==
  /\ Arrives(p)
  /\ \E u \in Requesters, id \in 1..nextId :
       LET isAdmin == IsAdminRole(u) IN
       procs' = [procs EXCEPT ![p] =
         IF id \notin DOMAIN actions
         THEN [IdleProc EXCEPT !.op = "delete", !.pc = "raised", !.user = u,
                               !.isAdmin = isAdmin, !.id = id, !.err = "NotFound"]
         ELSE IF ~isAdmin /\ actions[id].user_id # u
         THEN [IdleProc EXCEPT !.op = "delete", !.pc = "raised", !.user = u,
                               !.isAdmin = isAdmin, !.id = id, !.err = "Forbidden"]
         ELSE [IdleProc EXCEPT !.op = "delete", !.user = u, !.isAdmin = isAdmin,
                               !.id = id, !.owner = actions[id].user_id,
                               !.points = actions[id].points,
                               !.status = actions[id].status,
                               !.pc = IF actions[id].status = VERIFIED
                                         /\ actions[id].points > 0
                                      THEN "debit" ELSE "delete"]]
  /\ UNCHANGED <<total, actions, nextId, ledger, distCompleted, probe, bonus, vouchers, claims, secret, otps>>

\* await this.repository.updateUserPoints(userId, -action.points)
DeleteDebit(p) ==
  /\ procs[p].op = "delete" /\ procs[p].pc = "debit"
  /\ total' = updateUserPoints(total, procs[p].user, -procs[p].points)
  /\ ledger' = [ledger EXCEPT ![procs[p].id].debits = @ + 1]
  /\ procs' = [procs EXCEPT ![p].pc = "delete"]
  /\ UNCHANGED <<actions, nextId, distCompleted, probe, bonus, vouchers, claims, secret, otps>>

\* await this.repository.delete(id): deleting a row that is gone rejects
DeleteRow(p) ==
  /\ procs[p].op = "delete" /\ procs[p].pc = "delete"
  /\ IF procs[p].id \in DOMAIN actions
     THEN /\ actions' = [a \in DOMAIN actions \ {procs[p].id} |-> actions[a]]
          /\ procs' = [procs EXCEPT ![p].pc = "done"]
     ELSE /\ actions' = actions
          /\ procs' = [procs EXCEPT ![p].pc = "raised", ![p].err = "RecordNotFound"]
  /\ UNCHANGED <<total, nextId, ledger, distCompleted, probe, bonus, vouchers, claims, secret, otps>>

\* the locals of distributeDailyReward after getTopUsers: the skipped result
\* when topUsers is empty, else the start of the winners loop
DistStart(topUsers) ==
  IF Len(topUsers) = 0
  THEN [IdleProc EXCEPT !.op = "distribute", !.pc = "done", !.result = "skipped",
                        !.after = (distCompleted > 0)]
  ELSE [IdleProc EXCEPT !.op = "distribute", !.pc = "bonus", !.top = topUsers,
                        !.i = 1, !.after = (distCompleted > 0),
                        !.afterFailed =
                           \E q \in Procs : /\ procs[q].op = "distribute"
                                             /\ procs[q].err = "CreditFailed"]

\* distributeDailyReward up to the winners loop: getTopUsers(TOP_USERS_COUNT)
DistBegin(p) ==
  /\ Arrives(p)
  /\ \E topUsers \in getTopUsers(total, TOP_USERS_COUNT) :
       procs' = [procs EXCEPT ![p] = DistStart(topUsers)]
  /\ UNCHANGED <<total, actions, nextId, ledger, distCompleted, probe, bonus, vouchers, claims, secret, otps>>

\* a reward e-mail whose failure escapes to the caller
sendRewardEmailThrows(delivered) == IF delivered THEN "sent" ELSE "thrown"

\* sendRewardEmail: try { await sendLeaderboardRewardEmail } catch { logger.error }
sendRewardEmail(delivered) == IF delivered THEN "sent" ELSE "logged"

\* one iteration of the winners loop: addBonusPoints, winners.push,
\* sendRewardEmail; after the last one the result is returned
DistBonus(p) ==
  /\ procs[p].op = "distribute" /\ procs[p].pc = "bonus"
  /\ \E delivered \in BOOLEAN :
       LET user == procs[p].top[procs[p].i]
           rank == procs[p].i
           bonusPoints == DAILY_BONUS_POINTS[rank]
           last == procs[p].i = Len(procs[p].top)
           mail == sendRewardEmail(delivered)
       IN /\ total' = addBonusPoints(total, user, bonusPoints)
          /\ bonus' = [bonus EXCEPT ![user] = @ + bonusPoints]
          /\ procs' = [procs EXCEPT
               ![p].winners = Append(@, [userId |-> user, rank |-> rank,
                                         bonusPoints |-> bonusPoints]),
               ![p].totalBonusDistributed = @ + bonusPoints,
               ![p].i = @ + 1,
               ![p].firstMailFailure = IF @ = 0 /\ mail # "sent" THEN rank ELSE @,
               ![p].pc = IF mail = "thrown" THEN "raised"
                         ELSE IF last THEN "done" ELSE "bonus",
               ![p].err = IF mail = "thrown" THEN "MailError" ELSE "",
               ![p].result = IF mail # "thrown" /\ last THEN "distributed" ELSE ""]
          /\ distCompleted' = IF mail # "thrown" /\ last
                              THEN distCompleted + 1 ELSE distCompleted
  /\ UNCHANGED <<actions, nextId, ledger, probe, vouchers, claims, secret, otps>>

\* a retry that credits the requester
RetryCrediting(p) ==
  /\ Arrives(p)
  /\ \E u \in Requesters :
       /\ procs' = [procs EXCEPT ![p] =
            [IdleProc EXCEPT !.op = "retry", !.pc = "done", !.user = u,
                             !.result = "returned"]]
       /\ total' = updateUserPoints(total, u, 10)
  /\ UNCHANGED <<actions, nextId, ledger, distCompleted, probe, bonus, vouchers, claims, secret, otps>>

\* a lookup by id alone
findByIdAnyUser(id, userId) == id \in DOMAIN actions

\* green_action.findFirst({ where: { id, user_id: userId } }) finds a row
findByIdAndUserId(id, userId) ==
  id \in DOMAIN actions /\ actions[id].user_id = userId

\* retryVerification: findByIdAndUserId, NotFound, BadRequest when VERIFIED,
\* else the action as it is stored
Retry(p) ==
  /\ Arrives(p)
  /\ \E u \in Requesters, id \in 1..nextId :
       procs' = [procs EXCEPT ![p] =
         IF ~findByIdAndUserId(id, u)
         THEN [IdleProc EXCEPT !.op = "retry", !.pc = "raised", !.user = u, !.id = id,
                               !.err = "NotFound"]
         ELSE IF actions[id].status = VERIFIED
         THEN [IdleProc EXCEPT !.op = "retry", !.pc = "raised", !.user = u, !.id = id,
                               !.err = "BadRequest"]
         ELSE [IdleProc EXCEPT !.op = "retry", !.pc = "done", !.user = u, !.id = id,
                               !.owner = actions[id].user_id,
                               !.points = actions[id].points,
                               !.status = actions[id].status,
                               !.result = "returned"]]
  /\ UNCHANGED <<total, actions, nextId, ledger, distCompleted, probe, bonus, vouchers, claims, secret, otps>>

\* redeemVoucher up to its first checks: the WARGA guard of the route, findById,
\* NotFound, not active, expired, quota exhausted
RedeemBegin(p) ==
  /\ Arrives(p)
  /\ \E u \in Requesters, v \in DOMAIN vouchers \cup {"v0"} :
       LET raise(e) == [IdleProc EXCEPT !.op = "redeem", !.pc = "raised", !.user = u,
                                        !.voucher = v, !.err = e]
       IN procs' = [procs EXCEPT ![p] =
            IF Role[u] # "WARGA" THEN raise("Forbidden")
            ELSE IF v \notin DOMAIN vouchers THEN raise("NotFound")
            ELSE IF ~vouchers[v].is_active THEN raise("NotActive")
            ELSE IF vouchers[v].expired THEN raise("Expired")
            ELSE IF vouchers[v].quota_used >= vouchers[v].quota_total
                 THEN raise("QuotaExhausted")
            ELSE [IdleProc EXCEPT !.op = "redeem", !.pc = "claimed", !.user = u,
                                  !.voucher = v,
                                  !.points = vouchers[v].points_required]]
  /\ UNCHANGED <<total, actions, nextId, ledger, distCompleted, probe, bonus, vouchers, claims, secret, otps>>

\* voucher_claim.findFirst({ where: { user_id, voucher_id } })
hasUserClaimed(userId, voucherId) ==
  \E k \in 1..Len(claims) :
    claims[k].user_id = userId /\ claims[k].voucher_id = voucherId

\* await hasUserClaimed: BadRequest when the user holds a claim of the voucher
RedeemClaimed(p) ==
  /\ procs[p].op = "redeem" /\ procs[p].pc = "claimed"
  /\ procs' = [procs EXCEPT
       ![p].pc = IF hasUserClaimed(procs[p].user, procs[p].voucher)
                 THEN "raised" ELSE "points",
       ![p].err = IF hasUserClaimed(procs[p].user, procs[p].voucher)
                  THEN "AlreadyClaimed" ELSE ""]
  /\ UNCHANGED <<total, actions, nextId, ledger, distCompleted, probe, bonus, vouchers, claims, secret, otps>>

\* await getUserPoints: BadRequest when userPoints < voucher.points_required
RedeemPoints(p) ==
  /\ procs[p].op = "redeem" /\ procs[p].pc = "points"
  /\ procs' = [procs EXCEPT
       ![p].pc = IF total[procs[p].user] < procs[p].points THEN "raised" ELSE "claim",
       ![p].err = IF total[procs[p].user] < procs[p].points
                  THEN "InsufficientPoints" ELSE ""]
  /\ UNCHANGED <<total, actions, nextId, ledger, distCompleted, probe, bonus, vouchers, claims, secret, otps>>

\* createClaim, one transaction: quota_used incremented, total_points
\* decremented by the voucher's points_required, the claim row created
createClaim(p) ==
  /\ procs[p].op = "redeem" /\ procs[p].pc = "claim"
  /\ LET v == procs[p].voucher IN
       /\ vouchers' = [vouchers EXCEPT ![v].quota_used = @ + 1]
       /\ total' = [total EXCEPT ![procs[p].user] = @ - vouchers[v].points_required]
       /\ claims' = Append(claims, [user_id |-> procs[p].user, voucher_id |-> v,
                                    status |-> PENDING])
  /\ procs' = [procs EXCEPT ![p].pc = "done", ![p].result = "redeemed"]
  /\ UNCHANGED <<actions, nextId, ledger, distCompleted, probe, bonus, secret, otps>>

InFlight == {"create", "credit", "debit", "delete", "bonus", "claimed", "points", "claim"}

\* the process stops while a handler awaits the store
Stop(p) ==
  /\ procs[p].pc \in InFlight
  /\ procs' = [procs EXCEPT ![p] = [IdleProc EXCEPT !.op = procs[p].op, !.pc = "stopped"]]
  /\ UNCHANGED <<total, actions, nextId, ledger, distCompleted, probe, bonus, vouchers, claims, secret, otps>>

Next ==
  \E p \in Procs :
    \/ SubmitBegin(p) \/ SubmitCreate(p) \/ SubmitCredit(p)
    \/ DeleteBegin(p) \/ DeleteDebit(p) \/ DeleteRow(p)
    \/ DistBegin(p) \/ DistBonus(p)
    \/ Stop(p)

Spec == Init /\ [][Next]_vars

(***************************************************************************)
(* Every handler that reads or writes total_points, with retryVerification *)
(* and redeemVoucher, over stores that hold actions of both kinds.         *)
(***************************************************************************)
\* the stores of Spec, and one where w2 also owns a REJECTED action
InitStoresAll ==
  InitStores \cup
  { [total |-> [u \in Users |-> IF u = "w1" THEN 50 ELSE 0],
     actions |-> <<[user_id |-> "w1", status |-> VERIFIED, points |-> 50],
                   [user_id |-> "w2", status |-> REJECTED, points |-> 0]>>,
     ledger |-> <<[failed |-> FALSE, credits |-> 1, debits |-> 0],
                  [failed |-> FALSE, credits |-> 0, debits |-> 0]>>] }

InitAll ==
  /\ \E s \in InitStoresAll :
       /\ total = s.total
       /\ actions = s.actions
       /\ ledger = s.ledger
       /\ nextId = Len(s.ledger) + 1
  /\ procs = [p \in Procs |-> IdleProc]
  /\ distCompleted = 0
  /\ probe = ProbeOff
  /\ bonus = [u \in Users |-> 0]
  /\ vouchers = InitVouchers
  /\ claims = <<>>
  /\ secret = WebhookSecret
  /\ otps = <<>>

NextAll ==
  \E p \in 1..MaxRequests :
    \/ SubmitBegin(p) \/ SubmitCreate(p) \/ SubmitCredit(p)
    \/ DeleteBegin(p) \/ DeleteDebit(p) \/ DeleteRow(p)
    \/ DistBegin(p) \/ DistBonus(p)
    \/ Retry(p)
    \/ RedeemBegin(p) \/ RedeemClaimed(p) \/ RedeemPoints(p) \/ createClaim(p)
    \/ Stop(p)

SpecAll == InitAll /\ [][NextAll]_vars

(***************************************************************************)
(* The ranking on its own: distributions and ranking queries over user     *)
(* rows of every kind. The green_action rows play no part in it.           *)
(***************************************************************************)
\* total_points of the active participants at the start
RankTotals == {0, 20, 50}

\* query parameters: the number of top users, the page, the page size
TopNs == {1, 3, 10}

Pages == {1, 2}

Limits == {2, 10}

InitRank ==
  /\ total \in {t \in [Users -> RankTotals \cup {60, 70}] :
                  /\ t["w5"] = 60 /\ t["adm"] = 70
                  /\ \A u \in Users \ {"w5", "adm"} : t[u] \in RankTotals}
  /\ actions = <<>>
  /\ ledger = <<>>
  /\ nextId = 1
  /\ procs = [p \in Procs |-> IdleProc]
  /\ distCompleted = 0
  /\ probe = ProbeOff
  /\ bonus = [u \in Users |-> 0]
  /\ vouchers = InitVouchers
  /\ claims = <<>>
  /\ secret = WebhookSecret
  /\ otps = <<>>

\* GET leaderboard/top: getTopUsers(topN)
TopQuery(p) ==
  /\ Arrives(p)
  /\ \E topN \in TopNs : \E topUsers \in getTopUsers(total, topN) :
       procs' = [procs EXCEPT ![p] =
         [IdleProc EXCEPT !.op = "top", !.pc = "done", !.limit = topN, !.top = topUsers]]
  /\ UNCHANGED <<total, actions, nextId, ledger, distCompleted, probe, bonus, vouchers, claims, secret, otps>>

\* GET leaderboard: getLeaderboard({ page, limit })
LeaderboardQuery(p) ==
  /\ Arrives(p)
  /\ \E page \in Pages, limit \in Limits : \E r \in getLeaderboard(total, page, limit) :
       procs' = [procs EXCEPT ![p] =
         [IdleProc EXCEPT !.op = "leaderboard", !.pc = "done", !.i = page,
                          !.limit = limit, !.entries = r.data, !.count = r.total]]
  /\ UNCHANGED <<total, actions, nextId, ledger, distCompleted, probe, bonus, vouchers, claims, secret, otps>>

NextRank ==
  \E p \in 1..MaxRequests :
    \/ DistBegin(p) \/ DistBonus(p)
    \/ TopQuery(p) \/ LeaderboardQuery(p)

SpecRank == InitRank /\ [][NextRank]_vars

(***************************************************************************)
(* Voucher redemption on its own, by requests that overlap.                *)
(***************************************************************************)
\* w1 holds 50 points, w2 50 or none
InitVoucher ==
  /\ total \in {[u \in Users |-> IF u = "w1" THEN 50 ELSE IF u = "w2" THEN n ELSE 0] :
                  n \in {0, 50}}
  /\ actions = <<>>
  /\ ledger = <<>>
  /\ nextId = 1
  /\ procs = [p \in Procs |-> IdleProc]
  /\ distCompleted = 0
  /\ probe = ProbeOff
  /\ bonus = [u \in Users |-> 0]
  /\ vouchers = InitVouchers
  /\ claims = <<>>
  /\ secret = WebhookSecret
  /\ otps = <<>>

NextVoucher ==
  \E p \in Procs :
    RedeemBegin(p) \/ RedeemClaimed(p) \/ RedeemPoints(p) \/ createClaim(p)

SpecVoucher == InitVoucher /\ [][NextVoucher]_vars

(***************************************************************************)
(* One-time codes: MailerService.sendOtp and verifyOtp over the otp_code   *)
(* rows.  A row is [email, code, purpose, is_used, is_verified, expired];  *)
(* rows are kept in creation order, so the newest row has the largest      *)
(* index.  expires_at against the clock is the flag expired, set when the  *)
(* row's five minutes have passed.                                         *)
(***************************************************************************)
Emails == {"w1@mail"}
OtpPurposes == {"REGISTER", "DELETE_ACCOUNT"}
\* generateOtpCode draws digits at random: any code, a repeated one included
OtpCodes == {"111111", "222222"}

\* the where clause shared by updateMany and findFirst
Unused(k) == ~otps[k].is_used /\ ~otps[k].expired

\* otp_code.updateMany of sendOtp
updateMany(rows, email, purpose) ==
  [k \in DOMAIN rows |->
     IF /\ rows[k].email = email /\ rows[k].purpose = purpose
        /\ ~rows[k].is_used /\ ~rows[k].expired
       THEN [rows[k] EXCEPT !.is_used = TRUE] ELSE rows[k]]

\* the ids otp_code.findFirst of verifyOtp can match
findMatching(email, code, purpose) ==
  {k \in DOMAIN otps : /\ otps[k].email = email /\ otps[k].code = code
                        /\ otps[k].purpose = purpose /\ Unused(k)}

Newest(S) == CHOOSE k \in S : \A j \in S : j <= k

\* sendOtp up to the mail: the code is generated and mailed; a failed send
\* raises BadRequestException before anything is stored
SendOtpMail(p) ==
  /\ Arrives(p)
  /\ \E e \in Emails, pu \in OtpPurposes, c \in OtpCodes, delivered \in BOOLEAN :
       procs' = [procs EXCEPT ![p] =
         [IdleProc EXCEPT !.op = "sendOtp", !.email = e, !.purpose = pu, !.code = c,
                          !.pc = IF delivered THEN "invalidate" ELSE "raised",
                          !.err = IF delivered THEN "" ELSE "SendFailed"]]
  /\ UNCHANGED <<total, actions, nextId, ledger, distCompleted, probe, bonus, vouchers, claims, secret, otps>>

SendOtpInvalidate(p) ==
  /\ procs[p].op = "sendOtp" /\ procs[p].pc = "invalidate"
  /\ otps' = updateMany(otps, procs[p].email, procs[p].purpose)
  /\ procs' = [procs EXCEPT ![p].pc = "store"]
  /\ UNCHANGED <<total, actions, nextId, ledger, distCompleted, probe, bonus, vouchers, claims, secret>>

SendOtpCreate(p) ==
  /\ procs[p].op = "sendOtp" /\ procs[p].pc = "store"
  /\ otps' = Append(otps, [email |-> procs[p].email, code |-> procs[p].code,
                           purpose |-> procs[p].purpose, is_used |-> FALSE,
                           is_verified |-> FALSE, expired |-> FALSE])
  /\ procs' = [procs EXCEPT ![p].pc = "done", ![p].otp = Len(otps) + 1,
                            ![p].result = "sent"]
  /\ UNCHANGED <<total, actions, nextId, ledger, distCompleted, probe, bonus, vouchers, claims, secret>>

\* verifyOtp up to the findFirst: no matching row raises 'Invalid or expired
\* OTP code', otherwise the newest matching row is remembered
VerifyOtpFind(p) ==
  /\ Arrives(p)
  /\ \E e \in Emails, pu \in OtpPurposes, c \in OtpCodes :
       LET found == findMatching(e, c, pu) IN
       procs' = [procs EXCEPT ![p] =
         [IdleProc EXCEPT !.op = "verifyOtp", !.email = e, !.purpose = pu, !.code = c,
                          !.pc = IF found = {} THEN "raised" ELSE "mark",
                          !.err = IF found = {} THEN "InvalidOrExpired" ELSE "",
                          !.otp = IF found = {} THEN 0 ELSE Newest(found)]]
  /\ UNCHANGED <<total, actions, nextId, ledger, distCompleted, probe, bonus, vouchers, claims, secret, otps>>

\* the update by id that marks the row verified and used
VerifyOtpUpdate(p) ==
  /\ procs[p].op = "verifyOtp" /\ procs[p].pc = "mark"
  /\ otps' = [otps EXCEPT ![procs[p].otp].is_verified = TRUE,
                          ![procs[p].otp].is_used = TRUE]
  /\ procs' = [procs EXCEPT ![p].pc = "done", ![p].result = "verified"]
  /\ UNCHANGED <<total, actions, nextId, ledger, distCompleted, probe, bonus, vouchers, claims, secret>>

\* the clock passes a row's expires_at
ExpireOtp ==
  /\ \E k \in DOMAIN otps :
       /\ ~otps[k].expired
       /\ otps' = [otps EXCEPT ![k].expired = TRUE]
  /\ UNCHANGED <<total, actions, nextId, ledger, distCompleted, probe, bonus, vouchers, claims, secret, procs>>

\* no code issued yet, or one REGISTER code of w1@mail issued and unused
InitOtp ==
  /\ total = [u \in Users |-> 0]
  /\ actions = <<>>
  /\ ledger = <<>>
  /\ nextId = 1
  /\ procs = [p \in Procs |-> IdleProc]
  /\ distCompleted = 0
  /\ probe = ProbeOff
  /\ bonus = [u \in Users |-> 0]
  /\ vouchers = InitVouchers
  /\ claims = <<>>
  /\ secret = WebhookSecret
  /\ otps \in {<<>>, <<[email |-> "w1@mail", code |-> "111111", purpose |-> "REGISTER",
                        is_used |-> FALSE, is_verified |-> FALSE, expired |-> FALSE]>>}

NextOtp ==
  \/ \E p \in Procs :
       \/ SendOtpMail(p) \/ SendOtpInvalidate(p) \/ SendOtpCreate(p)
       \/ VerifyOtpFind(p) \/ VerifyOtpUpdate(p)
  \/ ExpireOtp

SpecOtp == InitOtp /\ [][NextOtp]_vars

(***************************************************************************)
(* The distribute-reward webhook: WebhookGuard in front of                 *)
(* distributeDailyReward, whose bonus credit may be rejected by the store. *)
(***************************************************************************)
\* a guard that lets every request through when no secret is configured
canActivateUnconfigured(shaKey, expectedSecret) ==
  IF expectedSecret = "" THEN "ok"
  ELSE IF shaKey = "" THEN "Missing x-sha-key header"
  ELSE IF shaKey # expectedSecret THEN "Invalid x-sha-key"
  ELSE "ok"

\* WebhookGuard.canActivate: the message of the UnauthorizedException, or ok
canActivate(shaKey, expectedSecret) ==
  IF expectedSecret = "" THEN "Webhook secret not configured on server"
  ELSE IF shaKey = "" THEN "Missing x-sha-key header"
  ELSE IF shaKey # expectedSecret THEN "Invalid x-sha-key"
  ELSE "ok"

\* x-sha-key of a request: absent, the secret, or something else
ShaKeys == {"", WebhookSecret, "S3CRET", "s3cre"}

\* POST leaderboard/distribute-reward: WebhookGuard, then distributeDailyReward
\* up to the winners loop
DistributeReward(p) ==
  /\ Arrives(p)
  /\ \E shaKey \in ShaKeys :
       IF canActivate(shaKey, secret) = "ok"
       THEN \E topUsers \in getTopUsers(total, TOP_USERS_COUNT) :
              procs' = [procs EXCEPT ![p] =
                          [DistStart(topUsers) EXCEPT !.shaKey = shaKey]]
       ELSE procs' = [procs EXCEPT ![p] =
                        [IdleProc EXCEPT !.op = "distribute", !.pc = "raised",
                                         !.err = "Unauthorized", !.shaKey = shaKey]]
  /\ UNCHANGED <<total, actions, nextId, ledger, distCompleted, probe, bonus, vouchers, claims, secret, otps>>

\* addBonusPoints rejects: the catch of distributeDailyReward logs and
\* rethrows, the credits made so far stay
DistBonusFails(p) ==
  /\ procs[p].op = "distribute" /\ procs[p].pc = "bonus"
  /\ procs' = [procs EXCEPT ![p].pc = "raised", ![p].err = "CreditFailed"]
  /\ UNCHANGED <<total, actions, nextId, ledger, distCompleted, probe, bonus, vouchers, claims, secret, otps>>

\* w1 holds 50 points, w2 20 or none; the secret is configured or not
InitWebhook ==
  /\ total \in {[u \in Users |-> IF u = "w1" THEN 50 ELSE IF u = "w2" THEN n ELSE 0] :
                  n \in {0, 20}}
  /\ actions = <<>>
  /\ ledger = <<>>
  /\ nextId = 1
  /\ procs = [p \in Procs |-> IdleProc]
  /\ distCompleted = 0
  /\ probe = ProbeOff
  /\ bonus = [u \in Users |-> 0]
  /\ vouchers = InitVouchers
  /\ claims = <<>>
  /\ secret \in {"", WebhookSecret}
  /\ otps = <<>>

NextWebhook ==
  \E p \in Procs : DistributeReward(p) \/ DistBonus(p) \/ DistBonusFails(p)

SpecWebhook == InitWebhook /\ [][NextWebhook]_vars

(***************************************************************************)
(* The ranking queries side by side over a store that does not change.     *)
(***************************************************************************)
\* getUserRank: the same where and orderBy, findIndex of the user, rank 0 and
\* totalPoints 0 when the user is not among the rows
getUserRank(t, userId) ==
  { IF \E k \in 1..Len(s) : s[k] = userId
    THEN [rank |-> CHOOSE k \in 1..Len(s) : s[k] = userId, totalPoints |-> t[userId]]
    ELSE [rank |-> 0, totalPoints |-> 0]
    : s \in Orderings(t) }

\* GET leaderboard/rank of a user
RankQuery(p) ==
  /\ Arrives(p)
  /\ \E u \in Users : \E r \in getUserRank(total, u) :
       procs' = [procs EXCEPT ![p] =
         [IdleProc EXCEPT !.op = "rank", !.pc = "done", !.user = u, !.i = r.rank,
                          !.points = r.totalPoints]]
  /\ UNCHANGED <<total, actions, nextId, ledger, distCompleted, probe, bonus, vouchers, claims, secret, otps>>

\* w1 and w2 hold 20 or 50 points each, w3 and w4 none
InitQueries ==
  /\ total \in {t \in [Users -> {0, 20, 50, 60, 70}] :
                  /\ t["w1"] \in {20, 50} /\ t["w2"] \in {20, 50}
                  /\ t["w3"] = 0 /\ t["w4"] = 0
                  /\ t["w5"] = 60 /\ t["adm"] = 70}
  /\ actions = <<>>
  /\ ledger = <<>>
  /\ nextId = 1
  /\ procs = [p \in Procs |-> IdleProc]
  /\ distCompleted = 0
  /\ probe = ProbeOff
  /\ bonus = [u \in Users |-> 0]
  /\ vouchers = InitVouchers
  /\ claims = <<>>
  /\ secret = WebhookSecret
  /\ otps = <<>>

NextQueries ==
  \E p \in Procs : TopQuery(p) \/ LeaderboardQuery(p) \/ RankQuery(p)

SpecQueries == InitQueries /\ [][NextQueries]_vars

(***************************************************************************)
(* Ranking queries around a distribution.                                  *)
(***************************************************************************)
NextAround ==
  \E p \in Procs : TopQuery(p) \/ DistBegin(p) \/ DistBonus(p)

SpecAround == InitQueries /\ [][NextAround]_vars

(***************************************************************************)
(* The decision ladder on its own: every score 0..100 against every        *)
(* category and subcategory, in the table or not.                          *)
(***************************************************************************)
TableSubCategories == UNION {DOMAIN POINTS_CRITERIA[c] : c \in DOMAIN POINTS_CRITERIA}

ProbeCategories == GreenActionCategory \cup {"NOT_A_CATEGORY"}

ProbeSubCategories == TableSubCategories \cup {"NOT_IN_TABLE"}

InitDecide ==
  /\ total = [u \in Users |-> 0]
  /\ actions = <<>>
  /\ ledger = <<>>
  /\ nextId = 1
  /\ procs = [p \in Procs |-> IdleProc]
  /\ distCompleted = 0
  /\ bonus = [u \in Users |-> 0]
  /\ vouchers = InitVouchers
  /\ claims = <<>>
  /\ secret = WebhookSecret
  /\ otps = <<>>
  /\ \E s \in 0..100, c \in ProbeCategories, sc \in ProbeSubCategories :
       probe = [ProbeOff EXCEPT !.phase = "in", !.score = s, !.category = c,
                                !.subCategory = sc]

Decide ==
  /\ probe.phase = "in"
  /\ LET r == calculatePointsAndStatus(probe.score, probe.category, probe.subCategory)
     IN probe' = [probe EXCEPT !.phase = "out", !.points = r.points, !.status = r.status]
  /\ UNCHANGED <<total, actions, nextId, procs, ledger, distCompleted,
                 bonus, vouchers, claims, secret, otps>>

NextDecide == Decide

SpecDecide == InitDecide /\ [][NextDecide]_vars

(***************************************************************************)
(* Properties.                                                             *)
(***************************************************************************)

\* the rule table as the claims read it: an entry, or {30, 60}
RuleBasePoints(c, sc) ==
  IF c \in DOMAIN POINTS_CRITERIA /\ sc \in DOMAIN POINTS_CRITERIA[c]
  THEN POINTS_CRITERIA[c][sc].basePoints ELSE 30

RuleMinScore(c, sc) ==
  IF c \in DOMAIN POINTS_CRITERIA /\ sc \in DOMAIN POINTS_CRITERIA[c]
  THEN POINTS_CRITERIA[c][sc].minScore ELSE 60

\* n = floor(0.6 * b), stated in integers
IsFloorOfSixTenths(n, b) == 10 * n <= 6 * b /\ 6 * b < 10 * (n + 1)

DistributionIdempotent ==
  \A p \in Procs :
    (procs[p].op = "distribute" /\ procs[p].after) =>
      (Len(procs[p].winners) = 0 /\ procs[p].result # "distributed")

\* C2: of two distributions that run concurrently for the same period (neither
\* started after the other had completed), at most one credits bonuses.
DistributionMutualExclusion ==
  \A p, q \in Procs :
    (/\ p # q
     /\ procs[p].op = "distribute" /\ ~procs[p].after
     /\ procs[q].op = "distribute" /\ ~procs[q].after)
    => ~(Len(procs[p].winners) > 0 /\ Len(procs[q].winners) > 0)

\* C3: every user's aggregate total is >= 0 in every reachable state.
BalanceNonNegative == \A u \in Users : total[u] >= 0

\* C4: the debit of deleteAction on a VERIFIED action with points P > 0 takes
\* exactly P from the total of the action's owner, whoever the permitted
\* requester is; a deleteAction on an action that is not VERIFIED with points
\* leaves every total unchanged.
DeletionReversal ==
  [][\A p \in Procs :
       procs[p].op = "delete" =>
         /\ (procs[p].pc = "debit" /\ procs'[p].pc = "delete") =>
              total' = [total EXCEPT ![procs[p].owner] = @ - procs[p].points]
         /\ (procs[p].pc = "delete" /\ procs'[p].pc # "delete"
               /\ ~(procs[p].status = VERIFIED /\ procs[p].points > 0)) =>
              total' = total]_vars

\* C5: an action persisted after the oracle failed has status
\* NEEDS_IMPROVEMENT and 0 points.
OracleFailureFallback ==
  \A id \in DOMAIN actions :
    ledger[id].failed =>
      (actions[id].status = NEEDS_IMPROVEMENT /\ actions[id].points = 0)

\* C6: when the oracle failed, submitAction does not raise, persists its one
\* action, that action is never VERIFIED, and no credit is applied for it.
OracleFailureAbsorbed ==
  /\ \A p \in Procs :
       (procs[p].op = "submit" /\ procs[p].failed) =>
         /\ procs[p].pc \notin {"raised", "credit"}
         /\ procs[p].status # VERIFIED
         /\ procs[p].pc = "done" =>
              (procs[p].id \in 1..Len(ledger) /\ ledger[procs[p].id].failed)
  /\ \A id \in 1..Len(ledger) :
       ledger[id].failed =>
         /\ ledger[id].credits = 0
         /\ id \in DOMAIN actions => actions[id].status # VERIFIED

OracleFailureSubmitted ==
  \E p \in Procs :
    /\ procs[p].op = "submit" /\ procs[p].failed /\ procs[p].pc = "done"
    /\ procs[p].id \in DOMAIN actions
    /\ actions[procs[p].id].user_id = procs[p].user

\* C8: submitAction changes totals only in its credit step, which it takes
\* exactly when the status is VERIFIED, and which adds exactly the action's
\* points to the submitting user's total and changes no other total.
LedgerCredit ==
  [][\A p \in Procs :
       /\ (procs[p].pc = "idle" /\ procs'[p].op = "submit") => total' = total
       /\ procs[p].op = "submit" =>
            /\ (procs[p].pc = "create" /\ procs'[p].pc \in {"credit", "done"}) =>
                 /\ total' = total
                 /\ procs'[p].pc = "credit" <=> procs[p].status = VERIFIED
            /\ (procs[p].pc = "credit" /\ procs'[p].pc = "done") =>
                 total' = [total EXCEPT ![procs[p].user] = @ + procs[p].points]
            /\ (procs[p].pc # "done" /\ procs'[p].pc = "done"
                  /\ procs[p].status = VERIFIED) => procs[p].pc = "credit"]_vars

VerifiedSubmitCredited ==
  \E p \in Procs :
    /\ procs[p].op = "submit" /\ procs[p].pc = "done"
    /\ procs[p].status = VERIFIED /\ procs[p].points > 0
    /\ ledger[procs[p].id].credits = 1
    /\ total[procs[p].user] >= procs[p].points

\* the submitAction that created action id is still before its credit
CreditPending(id) ==
  \E p \in Procs : procs[p].op = "submit" /\ procs[p].pc = "credit" /\ procs[p].id = id

\* C9: once the submitAction that created it has ended (completed, or stopped
\* between its two writes), a persisted VERIFIED action with points has had its
\* credit applied; and a credit that was not reversed has its action record.
SubmitAtomic ==
  /\ \A id \in DOMAIN actions :
       (actions[id].status = VERIFIED /\ actions[id].points > 0 /\ ~CreditPending(id)) =>
         ledger[id].credits = 1
  /\ \A id \in 1..Len(ledger) :
       (ledger[id].credits > 0 /\ ledger[id].debits = 0) => id \in DOMAIN actions

\* C10: the debit for a deleted VERIFIED action is applied exactly once, also
\* for concurrent deleteAction calls on the same action.
DeleteDebitsOnce == \A id \in 1..Len(ledger) : ledger[id].debits <= 1

\* the sum of the points of the green_action rows with the ids in S
RECURSIVE SumPoints(_)
SumPoints(S) ==
  IF S = {} THEN 0
  ELSE LET id == CHOOSE x \in S : TRUE IN actions[id].points + SumPoints(S \ {id})

VerifiedIdsOf(u) ==
  {id \in DOMAIN actions : actions[id].user_id = u /\ actions[id].status = VERIFIED}

\* no handler is between two of its store calls, and none was stopped there
Quiescent == \A p \in Procs : procs[p].pc \in {"idle", "done", "raised"}

\* C11: whenever no operation is in progress, every user's total_points is the
\* sum of the points of that user's existing VERIFIED actions plus the sum of
\* the leaderboard bonuses credited to that user.
QuiescentLedgerBalance ==
  Quiescent => \A u \in Users : total[u] = SumPoints(VerifiedIdsOf(u)) + bonus[u]

\* request p takes the step that leaves position pc of handler op
Steps(p, op, pc) ==
  procs'[p] # procs[p] /\ procs[p].op = op /\ procs[p].pc = pc /\ procs'[p].op = op

\* C12 as stated: total_points changes only in the credit of a VERIFIED
\* submission, the debit of a deletion and the bonus of the distribution;
\* every other step, those of redeemVoucher and retryVerification included,
\* leaves every total as it is.
TotalChangedByThreeOnly ==
  [][total' # total =>
       \E p \in Procs : Steps(p, "submit", "credit")
                         \/ Steps(p, "delete", "debit")
                         \/ Steps(p, "distribute", "bonus")]_vars

\* C12 amended: total_points changes only in those three steps and in the
\* createClaim transaction of redeemVoucher, which takes the voucher's
\* points_required off the redeemer's total; retryVerification and every other
\* step leave every total as it is.
TotalChangedByFourOnly ==
  [][/\ total' # total =>
          \E p \in Procs :
            \/ (Steps(p, "submit", "credit") /\ procs[p].status = VERIFIED)
            \/ (Steps(p, "delete", "debit") /\ procs[p].status = VERIFIED)
            \/ Steps(p, "distribute", "bonus")
            \/ (Steps(p, "redeem", "claim") /\
                  total' = [total EXCEPT ![procs[p].user] =
                              @ - vouchers[procs[p].voucher].points_required])
     /\ \A p \in Procs : procs'[p] # procs[p] /\ procs'[p].op = "retry" => total' = total
    ]_vars

\* a redemption has taken points off a total
RedeemedPointsTaken ==
  \E p \in Procs :
    /\ procs[p].op = "redeem" /\ procs[p].pc = "done"
    /\ total[procs[p].user] < SumPoints(VerifiedIdsOf(procs[p].user)) + bonus[procs[p].user]

\* C13: the debit of deleteAction changes the total of no user other than the
\* owner of the deleted action (an admin deleting someone else's VERIFIED
\* action keeps the admin's own total).
DeleteDebitsOwnerOnly ==
  [][\A p \in Procs :
       Steps(p, "delete", "debit") =>
         \A u \in Users \ {procs[p].owner} : total'[u] = total[u]]_vars

\* C14: deleteAction raises NotFound when no action has the id, and Forbidden
\* when the action exists and the requester is neither its owner nor of role
\* ADMIN / DLH; a raising call changes neither the actions nor any total, and
\* takes no step after it.
DeleteRejectsUnchanged ==
  [][\A p \in Procs :
       /\ procs[p].pc = "idle" /\ procs'[p].op = "delete" =>
            LET id == procs'[p].id
                u == procs'[p].user
            IN /\ id \notin DOMAIN actions =>
                    procs'[p].pc = "raised" /\ procs'[p].err = "NotFound"
               /\ (id \in DOMAIN actions /\ actions[id].user_id # u
                     /\ Role[u] \notin {"ADMIN", "DLH"}) =>
                    procs'[p].pc = "raised" /\ procs'[p].err = "Forbidden"
               /\ procs'[p].pc = "raised" => actions' = actions /\ total' = total
       /\ procs[p].op = "delete" /\ procs[p].pc = "raised" /\ procs[p].err \in {"NotFound", "Forbidden"} => procs'[p] = procs[p]
    ]_vars

\* a deleteAction of someone else's action by a non-admin was refused, and the
\* action and its owner's credited points are still there
DeleteForbiddenRefused ==
  \E p \in Procs :
    /\ procs[p].op = "delete" /\ procs[p].pc = "raised" /\ procs[p].err = "Forbidden"
    /\ procs[p].id \in DOMAIN actions
    /\ actions[procs[p].id].user_id # procs[p].user
    /\ actions[procs[p].id].status = VERIFIED
    /\ total[actions[procs[p].id].user_id] = actions[procs[p].id].points

\* the bonus table as the claims read it
RankBonus(r) == CASE r = 1 -> 15 [] r = 2 -> 10 [] r = 3 -> 5

RECURSIVE SumRankBonus(_)
SumRankBonus(k) == IF k = 0 THEN 0 ELSE RankBonus(k) + SumRankBonus(k - 1)

\* the eligible users as the claims read them: ordinary participants that are
\* active and hold points
ParticipantsWithPoints ==
  {u \in Users : Role[u] = "WARGA" /\ IsActive[u] /\ total[u] > 0}

\* r lists k different users of S, by total descending, and nobody of S that
\* is left out holds more than a listed user
IsRankingOf(r, k, S) ==
  /\ Len(r) = k
  /\ \A a \in 1..k : r[a] \in S
  /\ \A a, b \in 1..k : a < b => r[a] # r[b] /\ total[r[a]] >= total[r[b]]
  /\ \A u \in S : (\A a \in 1..k : r[a] # u) => \A a \in 1..k : total[r[a]] >= total[u]

\* C15: a distribution that finds k = min(3, eligible users) >= 1 winners
\* takes the top k of the ranking, credits the winner of rank r exactly
\* 15 / 10 / 5 and nobody else, and returns winners of ranks 1..k with
\* totalBonusDistributed the sum of these bonuses.
DistributionCreditsByRank ==
  [][\A p \in Procs :
       /\ (procs[p].pc = "idle" /\ procs'[p].op = "distribute"
            /\ ParticipantsWithPoints # {}) =>
            LET n == Cardinality(ParticipantsWithPoints)
                k == IF n < 3 THEN n ELSE 3
            IN /\ procs'[p].pc = "bonus"
               /\ IsRankingOf(procs'[p].top, k, ParticipantsWithPoints)
       /\ Steps(p, "distribute", "bonus") =>
            LET r == procs[p].i
                k == Len(procs[p].top)
            IN /\ total' = [total EXCEPT ![procs[p].top[r]] = @ + RankBonus(r)]
               /\ r < k => procs'[p].pc = "bonus" /\ procs'[p].i = r + 1
               /\ r = k =>
                    /\ procs'[p].pc = "done" /\ procs'[p].result = "distributed"
                    /\ Len(procs'[p].winners) = k
                    /\ \A a \in 1..k :
                         procs'[p].winners[a] =
                           [userId |-> procs[p].top[a], rank |-> a,
                            bonusPoints |-> RankBonus(a)]
                    /\ procs'[p].totalBonusDistributed = SumRankBonus(k)
    ]_vars

\* a distribution over more than three eligible users has returned: three
\* winners hold their bonus, an eligible user holds none
ThreeWinnersOfFour ==
  \E p \in Procs :
    /\ procs[p].op = "distribute" /\ procs[p].pc = "done"
    /\ Len(procs[p].winners) = 3
    /\ \A a \in 1..3 : bonus[procs[p].winners[a].userId] = RankBonus(a)
    /\ \E u \in ParticipantsWithPoints : bonus[u] = 0

\* C16: a distribution called while no active ordinary participant holds
\* points returns 'skipped' with no winners, changes no total and completes no
\* distribution; nothing having changed, a further call finds the same.
DistributionSkipsWhenNoneEligible ==
  [][\A p \in Procs :
       /\ (procs[p].pc = "idle" /\ procs'[p].op = "distribute"
            /\ ParticipantsWithPoints = {}) =>
            /\ procs'[p].pc = "done" /\ procs'[p].result = "skipped"
            /\ procs'[p].winners = <<>> /\ procs'[p].totalBonusDistributed = 0
            /\ total' = total /\ bonus' = bonus /\ distCompleted' = distCompleted
       /\ (procs[p].op = "distribute" /\ procs[p].result = "skipped") =>
            procs'[p] = procs[p]
    ]_vars

\* two calls, one after the other, were both skipped
SkippedTwice ==
  \E p, q \in Procs :
    /\ p # q
    /\ procs[p].op = "distribute" /\ procs[p].result = "skipped"
    /\ procs[q].op = "distribute" /\ procs[q].result = "skipped"
    /\ ParticipantsWithPoints = {}

\* C17: once the reward e-mail of a winner has failed, that winner's bonus
\* stays credited, every remaining winner is still credited in turn, and the
\* distribution returns its result instead of failing.
MailFailureHarmless ==
  [][\A p \in Procs :
       (Steps(p, "distribute", "bonus") /\ procs'[p].firstMailFailure # 0) =>
         LET r == procs[p].i
             k == Len(procs[p].top)
         IN /\ procs'[p].pc # "raised"
            /\ total'[procs[p].top[r]] = total[procs[p].top[r]] + RankBonus(r)
            /\ \A a \in 1..r : bonus'[procs[p].top[a]] >= RankBonus(a)
            /\ r < k => procs'[p].pc = "bonus" /\ procs'[p].i = r + 1
            /\ r = k => /\ procs'[p].pc = "done" /\ procs'[p].result = "distributed"
                        /\ Len(procs'[p].winners) = k
    ]_vars

\* the e-mail of the first of three winners failed, and the distribution
\* returned with all three credited
FirstMailFailedAllCredited ==
  \E p \in Procs :
    /\ procs[p].op = "distribute" /\ procs[p].pc = "done"
    /\ procs[p].result = "distributed"
    /\ procs[p].firstMailFailure = 1
    /\ Len(procs[p].winners) = 3
    /\ \A a \in 1..3 : bonus[procs[p].winners[a].userId] >= RankBonus(a)

\* C18 as stated: retryVerification of a stored action raises BadRequest when
\* the action is VERIFIED and otherwise returns it as stored, and changes
\* neither the actions nor any total.
RetryBadRequestOrReturns ==
  [][\A p \in Procs :
       (procs[p].pc = "idle" /\ procs'[p].op = "retry"
        /\ procs'[p].id \in DOMAIN actions) =>
         LET a == actions[procs'[p].id]
         IN /\ IF a.status = VERIFIED
               THEN procs'[p].pc = "raised" /\ procs'[p].err = "BadRequest"
               ELSE /\ procs'[p].pc = "done" /\ procs'[p].result = "returned"
                    /\ procs'[p].status = a.status /\ procs'[p].points = a.points
            /\ actions' = actions /\ total' = total
    ]_vars

\* C18 amended: retryVerification raises NotFound when the requester owns no
\* action of that id, raises BadRequest when the requester's action is
\* VERIFIED, and otherwise returns the action as stored; in every case it
\* changes neither the actions nor any total, and it takes no further step.
RetryOwnedOnly ==
  [][\A p \in Procs :
       /\ (procs[p].pc = "idle" /\ procs'[p].op = "retry") =>
            LET id == procs'[p].id
                owned == id \in DOMAIN actions /\ actions[id].user_id = procs'[p].user
            IN /\ ~owned => procs'[p].pc = "raised" /\ procs'[p].err = "NotFound"
               /\ (owned /\ actions[id].status = VERIFIED) =>
                    procs'[p].pc = "raised" /\ procs'[p].err = "BadRequest"
               /\ (owned /\ actions[id].status # VERIFIED) =>
                    /\ procs'[p].pc = "done" /\ procs'[p].result = "returned"
                    /\ procs'[p].status = actions[id].status
                    /\ procs'[p].points = actions[id].points
               /\ actions' = actions /\ total' = total
       /\ procs[p].op = "retry" => procs'[p] = procs[p]
    ]_vars

\* a retry of the requester's own REJECTED action has returned it, and the
\* row is as it was
RetryReturnedRejected ==
  \E p \in Procs :
    /\ procs[p].op = "retry" /\ procs[p].pc = "done" /\ procs[p].result = "returned"
    /\ procs[p].status = REJECTED
    /\ procs[p].id \in DOMAIN actions
    /\ actions[procs[p].id] = [user_id |-> procs[p].user, status |-> REJECTED, points |-> 0]

\* C19: when two VERIFIED submissions of one user have both returned, however
\* their store calls interleaved and with no other request around, the user's
\* total is what it was before them plus the points of both.
ConcurrentCreditsBothCount ==
  \A p, q \in Procs :
    (/\ p < q
     /\ procs[p].op = "submit" /\ procs[p].pc = "done" /\ procs[p].status = VERIFIED
     /\ procs[q].op = "submit" /\ procs[q].pc = "done" /\ procs[q].status = VERIFIED
     /\ procs[p].user = procs[q].user
     /\ \A r \in Procs \ {p, q} : procs[r].pc = "idle") =>
      LET u == procs[p].user
          before == SumPoints(VerifiedIdsOf(u) \ {procs[p].id, procs[q].id})
      IN total[u] = before + procs[p].points + procs[q].points

\* two VERIFIED submissions of one user overlapped (the request that arrived
\* second created its row first) and both have returned
OverlappingSubmitsDone ==
  /\ procs[1].op = "submit" /\ procs[1].pc = "done" /\ procs[1].status = VERIFIED
  /\ procs[2].op = "submit" /\ procs[2].pc = "done" /\ procs[2].status = VERIFIED
  /\ procs[1].user = procs[2].user
  /\ procs[2].id < procs[1].id
  /\ procs[1].points > 0 /\ procs[2].points > 0

\* C20: getTopUsers and getLeaderboard list only active ordinary participants
\* that hold points, each once, by total descending; the full listing leaves
\* none of them out, a shorter one leaves out only users that hold no more
\* than the listed ones, and a page numbers its rows from its offset.
RankingQueriesExact ==
  [][\A p \in Procs :
       /\ (procs[p].pc = "idle" /\ procs'[p].op = "top") =>
            LET n == Cardinality(ParticipantsWithPoints)
                k == IF n < procs'[p].limit THEN n ELSE procs'[p].limit
            IN IsRankingOf(procs'[p].top, k, ParticipantsWithPoints)
       /\ (procs[p].pc = "idle" /\ procs'[p].op = "leaderboard") =>
            LET n == Cardinality(ParticipantsWithPoints)
                skip == (procs'[p].i - 1) * procs'[p].limit
                rest == IF n < skip THEN 0 ELSE n - skip
                k == IF rest < procs'[p].limit THEN rest ELSE procs'[p].limit
                e == procs'[p].entries
                listed == [a \in 1..Len(e) |-> e[a].userId]
            IN /\ procs'[p].count = n
               /\ Len(e) = k
               /\ \A a \in 1..k :
                    e[a].rank = skip + a /\ e[a].totalPoints = total[e[a].userId]
               /\ IF skip = 0
                  THEN IsRankingOf(listed, k, ParticipantsWithPoints)
                  ELSE /\ \A a \in 1..k : listed[a] \in ParticipantsWithPoints
                       /\ \A a, b \in 1..k :
                            a < b => /\ listed[a] # listed[b]
                                     /\ total[listed[a]] >= total[listed[b]]
    ]_vars

\* a full listing of four eligible users was returned, while a deactivated
\* participant and an admin hold more points than any of them
FullListingOfFour ==
  \E p \in Procs :
    /\ procs[p].op = "leaderboard" /\ procs[p].i = 1
    /\ Len(procs[p].entries) = 4
    /\ \A u \in {"w5", "adm"} :
         \A a \in 1..4 : total[u] > procs[p].entries[a].totalPoints

\* the order in which the user rows were created
CreationRank ==
  [u \in Users |-> CASE u = "w1" -> 1 [] u = "w2" -> 2 [] u = "w3" -> 3
                      [] u = "w4" -> 4 [] u = "w5" -> 5 [] u = "adm" -> 6]

\* C21: of two listed users with equal totals the earlier-created one comes
\* first, in the ranking a top query returns and in the one a distribution
\* takes its winners from.
TiesByCreationOrder ==
  [][\A p \in Procs :
       (procs[p].pc = "idle" /\ procs'[p].op \in {"top", "distribute"}) =>
         \A a, b \in 1..Len(procs'[p].top) :
           (a < b /\ total[procs'[p].top[a]] = total[procs'[p].top[b]]) =>
             CreationRank[procs'[p].top[a]] < CreationRank[procs'[p].top[b]]
    ]_vars

\* C22: over a store that does not change, what the queries return fits one
\* ordering: a top-N result and the first page list the same users position
\* by position, every page entry at offset a carries rank (page-1)*limit + a,
\* and getUserRank reports the rank the page entry of that user carries, or 0
\* for a user that is not eligible.
QueriesShareOneOrdering ==
  \A p, q \in Procs :
    /\ (procs[p].op = "top" /\ procs[q].op = "leaderboard" /\ procs[q].i = 1) =>
         \A a \in 1..Len(procs[p].top) :
           a <= Len(procs[q].entries) => procs[q].entries[a].userId = procs[p].top[a]
    /\ (procs[p].op = "top" /\ procs[q].op = "top") =>
         \A a \in 1..Len(procs[p].top) :
           a <= Len(procs[q].top) => procs[q].top[a] = procs[p].top[a]
    /\ procs[q].op = "leaderboard" =>
         \A a \in 1..Len(procs[q].entries) :
           procs[q].entries[a].rank = (procs[q].i - 1) * procs[q].limit + a
    /\ (procs[p].op = "rank" /\ procs[q].op = "leaderboard") =>
         \A a \in 1..Len(procs[q].entries) :
           procs[q].entries[a].userId = procs[p].user =>
             procs[p].i = procs[q].entries[a].rank
    /\ (procs[p].op = "rank" /\ procs[q].op = "top") =>
         \A a \in 1..Len(procs[q].top) :
           procs[q].top[a] = procs[p].user => procs[p].i = a
    /\ procs[p].op = "rank" =>
         (procs[p].i = 0 <=> procs[p].user \notin ParticipantsWithPoints)

\* C23: every stored green_action has points >= 0, and points > 0 only with
\* status VERIFIED.
PersistedPointsSound ==
  \A id \in DOMAIN actions :
    /\ actions[id].points >= 0
    /\ actions[id].points > 0 => actions[id].status = VERIFIED

\* two submissions are stored: one that needs improvement, without points,
\* and a VERIFIED one with partial credit
StoredWithAndWithoutPoints ==
  \E p, q \in Procs :
    /\ procs[p].op = "submit" /\ procs[p].id \in DOMAIN actions
    /\ actions[procs[p].id].status = NEEDS_IMPROVEMENT
    /\ actions[procs[p].id].points = 0
    /\ procs[q].op = "submit" /\ procs[q].id \in DOMAIN actions
    /\ actions[procs[q].id].status = VERIFIED
    /\ actions[procs[q].id].points = 30

\* the statuses from worst to best
StatusRank(st) == CASE st = REJECTED -> 0 [] st = NEEDS_IMPROVEMENT -> 1 [] st = VERIFIED -> 2

\* C26: the ladder gives every score 0..100 one outcome with a status of the
\* three and points >= 0, and a lower score never gets more points or a
\* better status than a higher one, for every entry of the rule table and for
\* the default entry; every minScore lies in 40..80.
LadderMonotonicTotal ==
  /\ \A c \in DOMAIN POINTS_CRITERIA : \A sc \in DOMAIN POINTS_CRITERIA[c] :
       POINTS_CRITERIA[c][sc].minScore \in 40..80
  /\ DefaultCriteria.minScore \in 40..80
  /\ probe.phase = "out" =>
       /\ probe.status \in {REJECTED, NEEDS_IMPROVEMENT, VERIFIED}
       /\ probe.points >= 0
       /\ \A s1 \in 0..probe.score :
            LET r1 == calculatePointsAndStatus(s1, probe.category, probe.subCategory)
            IN /\ r1.points <= probe.points
               /\ StatusRank(r1.status) <= StatusRank(probe.status)

\* a score of a table entry got full credit, above a lower score with partial
\* credit and a still lower one with none
LadderThreeSteps ==
  /\ probe.phase = "out" /\ probe.status = VERIFIED
  /\ probe.category \in DOMAIN POINTS_CRITERIA
  /\ probe.subCategory \in DOMAIN POINTS_CRITERIA[probe.category]
  /\ \E s1, s2 \in 0..probe.score :
       LET r1 == calculatePointsAndStatus(s1, probe.category, probe.subCategory)
           r2 == calculatePointsAndStatus(s2, probe.category, probe.subCategory)
       IN s1 < s2 /\ r1.points = 0 /\ r1.points < r2.points /\ r2.points < probe.points

\* C24: the trigger starts a distribution only for a request whose x-sha-key
\* is present and equal to a configured secret; every other request is
\* refused as Unauthorized, changes no total and takes no further step, so
\* every bonus credit belongs to a request that carried the secret.
WebhookOnlyWithSecret ==
  [][\A p \in Procs :
       /\ (procs[p].pc = "idle" /\ procs'[p].op = "distribute") =>
            IF secret # "" /\ procs'[p].shaKey # "" /\ procs'[p].shaKey = secret
            THEN procs'[p].pc \in {"bonus", "done"}
            ELSE /\ procs'[p].pc = "raised" /\ procs'[p].err = "Unauthorized"
                 /\ total' = total
       /\ (procs[p].op = "distribute" /\ procs[p].err = "Unauthorized") =>
            procs'[p] = procs[p]
       /\ Steps(p, "distribute", "bonus") =>
            secret # "" /\ procs[p].shaKey = secret
    ]_vars

\* a request with a key that differs from the configured secret in one letter
\* was refused while a user was eligible, and nobody got a bonus
WrongKeyRefused ==
  \E p \in Procs :
    /\ procs[p].op = "distribute" /\ procs[p].err = "Unauthorized"
    /\ secret = WebhookSecret /\ procs[p].shaKey = "s3cre"
    /\ ParticipantsWithPoints # {}
    /\ \A u \in Users : bonus[u] = 0

\* the number of rank bonuses the invocations q of Q credited to user u
RECURSIVE CreditsTo(_, _)
CreditsTo(u, Q) ==
  IF Q = {} THEN 0
  ELSE LET q == CHOOSE x \in Q : TRUE
       IN Cardinality({a \in 1..Len(procs[q].winners) : procs[q].winners[a].userId = u})
          + CreditsTo(u, Q \ {q})

\* C25: an invocation whose bonus credit was rejected ends with the error and
\* without a result; once an invocation that started after that failure has
\* returned its result, and no other has, no user holds more than one rank
\* bonus.
FailedDistributionRetrySafe ==
  /\ \A p \in Procs :
       (procs[p].op = "distribute" /\ procs[p].err = "CreditFailed") =>
         procs[p].pc = "raised" /\ procs[p].result = ""
  /\ \A p \in Procs :
       (/\ procs[p].op = "distribute" /\ procs[p].result = "distributed"
        /\ procs[p].afterFailed
        /\ \A q \in Procs \ {p} : procs[q].result # "distributed") =>
         \A u \in Users : CreditsTo(u, Procs) <= 1

\* C27: when a top query was answered, then a distribution ran from start to
\* result with no other request around, every top query on the store it
\* leaves lists the same users in the same order as the query before it, over
\* the length both cover.
DistributionKeepsRanking ==
  \A p, q \in Procs :
    (/\ p < q
     /\ procs[p].op = "top"
     /\ procs[q].op = "distribute" /\ procs[q].result = "distributed"
     /\ \A r \in Procs \ {p, q} : procs[r].pc = "idle") =>
      \A again \in getTopUsers(total, procs[p].limit) :
        /\ Len(again) = Len(procs[p].top)
        /\ \A a \in 1..Len(again) : again[a] = procs[p].top[a]

\* C28: a redemption refused for insufficient points has changed nothing, and
\* no redemption that went through, alone or overlapping another one of the
\* same user, leaves that user's total below zero.
RedemptionKeepsBalance ==
  \A p \in Procs :
    /\ (procs[p].op = "redeem" /\ procs[p].err = "InsufficientPoints") =>
         procs[p].pc = "raised"
    /\ (procs[p].op = "redeem" /\ procs[p].pc = "done") =>
         total[procs[p].user] >= 0

\* C29: no voucher has more claims counted than its quota, and no user holds
\* two claims of one voucher, however the redemptions overlap.
QuotaAndSingleClaim ==
  /\ \A v \in DOMAIN vouchers : vouchers[v].quota_used <= vouchers[v].quota_total
  /\ \A j, k \in 1..Len(claims) :
       (j # k /\ claims[j].voucher_id = claims[k].voucher_id) =>
         claims[j].user_id # claims[k].user_id

\* C30: a one-time code verifies at most once, also when two verifyOtp calls
\* with the same email, code and purpose overlap, and of the codes issued for
\* one email and purpose only the most recently issued one is still usable.
OtpSingleUse ==
  /\ \A p, q \in Procs :
       (/\ p # q
        /\ procs[p].op = "verifyOtp" /\ procs[p].pc = "done"
        /\ procs[q].op = "verifyOtp" /\ procs[q].pc = "done") =>
         procs[p].otp # procs[q].otp
  /\ \A j, k \in DOMAIN otps :
       (/\ j < k /\ otps[j].email = otps[k].email
        /\ otps[j].purpose = otps[k].purpose) => ~Unused(j)

====
